---- MODULE Spec2Model ----
(***************************************************************************)
(* PSPTrace: decoding of an SPI capture into read accesses, the address    *)
(* classifier built from the firmware layout, and the post-processing      *)
(* stages of display_all (src/psptrace/psptrace.py).                        *)
(*                                                                         *)
(* Conventions.  Python lists are sequences; Python index i is element     *)
(* i + 1.  A Python dict keyed by integers is a function whose DOMAIN is   *)
(* the key set; an access record is a function from field names, so a      *)
(* field a record does not have yet is absent from its DOMAIN.  The type   *)
(* of a region is a string; Python's None (no region) is the string        *)
(* "None".  A missing duplicate_count (Python None) is the number 0, which *)
(* no real count takes.  An exception that escapes is recorded in exc and  *)
(* pc = "raised".  The diagnostic counters unparsable_instructions and     *)
(* invalid_instructions are never read and are left out.                   *)
(***************************************************************************)
EXTENDS Integers, Sequences, FiniteSets, TLC

VARIABLES
    layout,           \* psptool.blob: the directories of the firmware image
    fmt,              \* "mosi" or "value": which column data holds
    time,             \* data['time']
    samples,          \* data['mosi'] or data['value']
    index,            \* find_read_accesses: cursor
    last_index,
    instr_index,
    last_start_time,
    last_end_time,
    end_time,
    read_accesses,    \* the access collection, keyed by start time
    pc,               \* position in main()
    exc,              \* the exception that escaped, "none" if none
    args,             \* the stage toggles of display_all
    probe,            \* classifier: the address looked up last
    resolved,         \* classifier: what it resolved to
    cache,            \* the database file csvfile + '.pickle'
    overview,         \* display_overview: overview_read_accesses
    invocations       \* how many times main() was started

vars == <<layout, fmt, time, samples, index, last_index, instr_index,
          last_start_time, last_end_time, end_time, read_accesses, pc, exc,
          args, probe, resolved, cache, overview, invocations>>

decoderVars == <<index, last_index, instr_index, last_start_time,
                 last_end_time, end_time>>
inputVars == <<layout, fmt, time, samples, args>>
classifierVars == <<probe, resolved>>
sessionVars == <<cache, overview, invocations>>

None == "None"
NoCount == 0

----------------------------------------------------------------------------
(* Bounds of the model. *)

MaxSamples == 7
MaxQuadSamples == 6
MaxEntries == 2
MaxRun == 10
MaxAccesses == 3
MaxCachedSamples == 4
MaxInvocations == 2
MaxMixed == 4

----------------------------------------------------------------------------
(* Generic helpers for dicts and lists. *)

Put(d, k, v) == [y \in (DOMAIN d) \cup {k} |-> IF y = k THEN v ELSE d[y]]

Del(d, k) == [y \in (DOMAIN d) \ {k} |-> d[y]]

Get(r, k, default) == IF k \in DOMAIN r THEN r[k] ELSE default

At(s, i) == s[i + 1]

Contains(s, v) == \E i \in 1..Len(s) : s[i] = v

RemoveAt(s, i) == [j \in 1..(Len(s) - 1) |-> IF j < i THEN s[j] ELSE s[j + 1]]

Min(S) == CHOOSE m \in S : \A n \in S : m <= n

Max(S) == CHOOSE m \in S : \A n \in S : m >= n

RECURSIVE SortedKeysOf(_)
SortedKeysOf(S) == IF S = {} THEN <<>> ELSE <<Min(S)>> \o SortedKeysOf(S \ {Min(S)})

\* sorted(d.items()): the keys in increasing order
SortedKeys(d) == SortedKeysOf(DOMAIN d)

RECURSIVE SeqsUpTo(_, _)
SeqsUpTo(S, n) ==
    IF n = 0 THEN {<<>>}
    ELSE LET shorter == SeqsUpTo(S, n - 1)
         IN  shorter \cup {Append(s, v) : s \in {t \in shorter : Len(t) = n - 1}, v \in S}

----------------------------------------------------------------------------
(* Opcode catalog: WINBOND_INSTRUCTIONS of psptrace.py. *)

InstrSize1 == {6, 80, 4, 159, 199, 96, 5, 1, 53, 49, 21, 17, 126, 152, 117, 122,
               185, 102, 153}
InstrSize4 == {171, 144, 3, 32, 82, 216, 68, 61, 54, 57, 235, 231, 227, 148}
InstrSize5 == {75, 11, 90, 72}
InstrSize6 == {2, 66}

WINBOND_INSTRUCTIONS == InstrSize1 \cup InstrSize4 \cup InstrSize5 \cup InstrSize6

InstrSize(instr) ==
    IF instr \in InstrSize1 THEN 1
    ELSE IF instr \in InstrSize4 THEN 4
    ELSE IF instr \in InstrSize5 THEN 5
    ELSE 6

ExpectsData(instr) ==
    instr \in {171, 144, 159, 75, 3, 11, 5, 1, 53, 49, 21, 17, 90, 72, 61, 235,
               231, 227, 148}

READ_DATA == 3
FAST_READ == 11

----------------------------------------------------------------------------
(* count_data_bytes: count from 1 until an opcode byte shows up; running   *)
(* off the end of s raises IndexError inside, which ends the count.        *)

RECURSIVE ScanDataBytes(_, _, _)
ScanDataBytes(base_addr, s, data_bytes) ==
    IF base_addr + data_bytes >= Len(s) THEN data_bytes
    ELSE IF At(s, base_addr + data_bytes) \in WINBOND_INSTRUCTIONS THEN data_bytes
    ELSE ScanDataBytes(base_addr, s, data_bytes + 1)

count_data_bytes_from_zero(base_addr, s) == ScanDataBytes(base_addr, s, 0)

count_data_bytes(base_addr, s) == ScanDataBytes(base_addr, s, 1)

----------------------------------------------------------------------------
(* Address classifier: the RangeDict built in find_read_accesses.  The     *)
(* dict is a list of items in insertion order; a key equal to an earlier   *)
(* key keeps the earlier position and takes the later value.               *)

\* A buffer_size is an unsigned 32-bit number, and address + buffer_size may
\* need 33 bits; the integers of the checker end at 2^31 - 1.  A size, and
\* the end of a range, is therefore held as <<hi, lo>>, the number
\* hi * 65536 + lo with 0 <= lo < 65536.
Word(n) == <<n \div 65536, n % 65536>>

\* n + w for an integer n >= 0 and a number w held as <<hi, lo>>
WordAdd(n, w) ==
    <<w[1] + (n \div 65536) + ((w[2] + (n % 65536)) \div 65536),
      (w[2] + (n % 65536)) % 65536>>

\* a < b for numbers held as <<hi, lo>>
WordLess(a, b) == a[1] < b[1] \/ (a[1] = b[1] /\ a[2] < b[2])

\* 0xffffffff, the buffer_size of an entry without a size
UNBOUNDED_SIZE == <<65535, 65535>>

ENTRY_TABLE_START == 131072
ENTRY_TABLE_END == 131136

Range(lo, hi) == [lo |-> lo, hi |-> hi]

InRangeClosed(item, key) == key.lo <= item /\ ~ WordLess(key.hi, Word(item))

\* item in range(lo, hi)
InRange(item, key) == key.lo <= item /\ WordLess(Word(item), key.hi)

\* range(a, b) == range(c, d): empty ranges are all equal
RangeEq(k1, k2) ==
    \/ ~ WordLess(Word(k1.lo), k1.hi) /\ ~ WordLess(Word(k2.lo), k2.hi)
    \/ WordLess(Word(k1.lo), k1.hi) /\ k1 = k2

\* d[key] = value on a dict held as a list of items
RangeDictSet(items, key, value) ==
    IF \E i \in 1..Len(items) : RangeEq(items[i].key, key)
    THEN [i \in 1..Len(items) |->
             IF RangeEq(items[i].key, key)
             THEN [key |-> items[i].key, value |-> value]
             ELSE items[i]]
    ELSE Append(items, [key |-> key, value |-> value])

RECURSIVE RangeDictUpdate(_, _)
RangeDictUpdate(items, pairs) ==
    IF pairs = <<>> THEN items
    ELSE RangeDictUpdate(RangeDictSet(items, Head(pairs).key, Head(pairs).value),
                         Tail(pairs))

RECURSIVE Flatten(_)
Flatten(lists) == IF lists = <<>> THEN <<>> ELSE Head(lists) \o Flatten(Tail(lists))

\* all_entries: the entries of every directory, in directory order
all_entries(directories) ==
    Flatten([i \in 1..Len(directories) |-> directories[i].entries])

\* for entry in all_entries if entry.buffer_size != 0xffffffff
SizedEntries(entries) == SelectSeq(entries, LAMBDA e : e.buffer_size # UNBOUNDED_SIZE)

EntryPairs(directories) ==
    LET es == SizedEntries(all_entries(directories))
    IN  [i \in 1..Len(es) |->
            [key |-> Range(es[i].address, WordAdd(es[i].address, es[i].buffer_size)),
             value |-> es[i].type]]

DirectoryPairs(directories) ==
    [i \in 1..Len(directories) |->
        [key |-> Range(directories[i].address,
                       Word(directories[i].address + directories[i].length)),
         value |-> "Directory: " \o directories[i].magic]]

TablePairs ==
    <<[key |-> Range(ENTRY_TABLE_START, Word(ENTRY_TABLE_END)),
       value |-> "Firmware Entry Table"]>>

type_at_address_range(directories) ==
    RangeDictUpdate(<<>>, EntryPairs(directories) \o DirectoryPairs(directories)
                          \o TablePairs)

\* RangeDict.__getitem__ for an item that is not a range
RangeDictGet(items, item) ==
    LET hits == {i \in 1..Len(items) : InRange(item, items[i].key)}
    IN  IF hits = {} THEN None
        ELSE items[Min(hits)].value

\* type_at_address_range[address]
Resolve(directories, address) ==
    RangeDictGet(type_at_address_range(directories), address)

----------------------------------------------------------------------------
(* Inputs of the model. *)

\* bytes on MOSI: an unknown byte, Read Data, Fast Read, JEDEC ID (1 byte,
\* expects data)
MosiBytes == {0, READ_DATA, FAST_READ, 159}

\* values of the quad analyzer: a data value, Read Data, Fast Read Quad I/O
\* and a value above 0xFF (an address)
QuadValues == {0, READ_DATA, 235, 256}

\* the captures of the whole-pipeline runs; 6 is Write Enable (1 byte, no
\* data)
PipelineBytes == {0, READ_DATA, 6}
PipelineValues == {0, READ_DATA, 256}

\* a non-decreasing sample clock: n timestamps from base, `run` samples each
Clock(n, base, run) == [i \in 1..n |-> base + ((i - 1) \div run)]

\* strictly increasing from 0, and from 10 with equal timestamps on
\* successive samples
Clocks(n) == {Clock(n, 0, 1), Clock(n, 10, 6)}

\* the firmware image of the decoder runs: one directory with two entries
DecoderLayout ==
    <<[address |-> 0, length |-> 512, magic |-> "$PSP",
       entries |-> <<[address |-> 0, buffer_size |-> Word(4), type |-> "0x1"],
                     [address |-> 4, buffer_size |-> Word(12), type |-> "0x8"]>>]>>

NoArgs ==
    [overview_mode |-> FALSE, no_duplicates |-> FALSE, collapse |-> FALSE,
     normalize_timestamps |-> FALSE]

\* the arguments that select display_all
Toggles ==
    [overview_mode : {FALSE}, no_duplicates : BOOLEAN, collapse : BOOLEAN,
     normalize_timestamps : BOOLEAN]

\* every combination of -o, -n, -c and -t
Arguments ==
    [overview_mode : BOOLEAN, no_duplicates : BOOLEAN, collapse : BOOLEAN,
     normalize_timestamps : BOOLEAN]

\* overview mode alone and with all of -n, -c and -t
OverviewArgs ==
    {a \in Arguments : /\ a.overview_mode
                       /\ a.no_duplicates = a.collapse
                       /\ a.collapse = a.normalize_timestamps}

\* the arguments of the runs of the model
Selections == Toggles \cup OverviewArgs

----------------------------------------------------------------------------
(* find_read_accesses. *)

RECURSIVE FromBytesBig(_)
\* int.from_bytes(bytes(b), byteorder='big')
FromBytesBig(b) ==
    IF b = <<>> THEN 0
    ELSE FromBytesBig(SubSeq(b, 1, Len(b) - 1)) * 256 + b[Len(b)]

\* s[lo:hi] for 0 <= lo <= hi: a slice stops at the end of the list
Slice(s, lo, hi) ==
    LET stop == IF hi < Len(s) THEN hi ELSE Len(s)
    IN  IF lo >= stop THEN <<>> ELSE SubSeq(s, lo + 1, stop)

Raise(e) ==
    /\ pc' = "raised"
    /\ exc' = e

\* lines 348-386: the classifier is built, the locals are set, and
\* end_time = data['time'][index] raises on a capture without rows
Prologue ==
    /\ pc = "find_read_accesses"
    /\ IF Len(time) = 0
       THEN /\ Raise("IndexError")
            /\ UNCHANGED <<decoderVars, read_accesses>>
       ELSE /\ index' = 0
            /\ last_index' = 0
            /\ instr_index' = 0
            /\ last_start_time' = 0
            /\ last_end_time' = 0
            /\ end_time' = At(time, 0)
            /\ read_accesses' = <<>>
            /\ pc' = IF fmt = "mosi" THEN "mosi_loop" ELSE "value_loop"
            /\ exc' = exc
    /\ UNCHANGED <<inputVars, classifierVars, sessionVars>>

MosiStay(i, length) == i

\* the cursor after an instruction of `length` bytes at `i`
MosiAdvance(i, length) == i + length

\* the sample whose timestamp ends a read: data['time'][index + data_bytes]
ReadEndIndex(i, instr_size, data_bytes) == i + data_bytes

\* lines 393-421: Read Data or Fast Read
MosiRead ==
    /\ pc = "mosi_loop"
    /\ index < Len(samples)
    /\ At(samples, index) \in {READ_DATA, FAST_READ}
    /\ LET instr == At(samples, index)
           instr_size == InstrSize(instr)
           data_bytes == count_data_bytes(index + instr_size, samples)
           end_index == ReadEndIndex(index, instr_size, data_bytes)
       IN  IF end_index >= Len(time)
           THEN /\ Raise("IndexError")
                /\ UNCHANGED <<decoderVars, read_accesses>>
           ELSE LET start_time == At(time, index)
                    end == At(time, end_index)
                    address == FromBytesBig(Slice(samples, index + 1, index + 4))
                IN  /\ read_accesses' = Put(read_accesses, start_time,
                           [instr_index |-> instr_index,
                            start_time |-> start_time,
                            end_time |-> end,
                            duration |-> end - start_time,
                            latency |-> start_time - last_end_time,
                            address |-> address,
                            size |-> data_bytes,
                            type |-> Resolve(layout, address),
                            info |-> <<>>])
                    /\ end_time' = end
                    /\ last_end_time' = end
                    /\ index' = MosiAdvance(index, instr_size + data_bytes)
                    /\ instr_index' = instr_index + 1
                    /\ UNCHANGED <<last_index, last_start_time, pc, exc>>
    /\ UNCHANGED <<inputVars, classifierVars, sessionVars>>

\* lines 423-433: an instruction of the catalog that is not a read
MosiKnown ==
    /\ pc = "mosi_loop"
    /\ index < Len(samples)
    /\ At(samples, index) \in WINBOND_INSTRUCTIONS \ {READ_DATA, FAST_READ}
    /\ LET instr == At(samples, index)
           instr_size == InstrSize(instr)
           data_bytes == IF ExpectsData(instr)
                         THEN count_data_bytes(index + instr_size, samples)
                         ELSE 0
       IN  /\ last_end_time' = end_time
           /\ index' = MosiAdvance(index, instr_size + data_bytes)
           /\ instr_index' = instr_index + 1
    /\ UNCHANGED <<last_index, last_start_time, end_time, read_accesses, pc, exc>>
    /\ UNCHANGED <<inputVars, classifierVars, sessionVars>>

\* lines 435-442: a byte that is no opcode
MosiUnknown ==
    /\ pc = "mosi_loop"
    /\ index < Len(samples)
    /\ At(samples, index) \notin WINBOND_INSTRUCTIONS
    /\ index' = MosiAdvance(index, 1)
    /\ instr_index' = instr_index + 1
    /\ UNCHANGED <<last_index, last_start_time, last_end_time, end_time,
                   read_accesses, pc, exc>>
    /\ UNCHANGED <<inputVars, classifierVars, sessionVars>>

\* line 390 false, line 506: the loop ends and the collection is returned
MosiReturn ==
    /\ pc = "mosi_loop"
    /\ index >= Len(samples)
    /\ pc' = "decoded"
    /\ UNCHANGED <<decoderVars, read_accesses, exc, inputVars, classifierVars, sessionVars>>

QUAD_READS == {3, 11, 235, 231, 227, 236}
QSPI_READS == {235, 231, 227}

FinalizeCountingFrame(access, at, from, previous_end_time) ==
    LET sized == Put(access, "size", at - from)
        ended == Put(sized, "end_time", previous_end_time)
        timed == Put(ended, "duration", previous_end_time - access.start_time)
    IN  Put(timed, "latency", access.start_time - access.last_end_time)

FinalizeDurationFromZero(access, at, from, previous_end_time) ==
    LET sized == Put(access, "size", at - from - 2)
        ended == Put(sized, "end_time", previous_end_time)
        timed == Put(ended, "duration", previous_end_time)
    IN  Put(timed, "latency", access.start_time - access.last_end_time)

\* lines 460-471 and 493-504: size, end_time, duration and latency of the
\* access opened last, closed at Python index `at` with `previous_end_time`
Finalize(access, at, from, previous_end_time) ==
    LET sized == Put(access, "size", at - from - 2)
        ended == Put(sized, "end_time", previous_end_time)
        timed == Put(ended, "duration", previous_end_time - access.start_time)
    IN  Put(timed, "latency", access.start_time - access.last_end_time)

\* lines 450-487: a read opcode followed by an address value
QuadOpen ==
    /\ pc = "value_loop"
    /\ index < Len(samples) - 1
    /\ At(samples, index) \in QUAD_READS
    /\ At(samples, index + 1) > 255
    /\ LET value == At(samples, index)
           address == At(samples, index + 1)
           start_time == At(time, index)
           previous_end_time == At(time, index - 1)
           closed == IF instr_index > 0
                     THEN Put(read_accesses, last_start_time,
                              Finalize(read_accesses[last_start_time], index,
                                       last_index, previous_end_time))
                     ELSE read_accesses
       IN  /\ read_accesses' = Put(closed, start_time,
                  [instr_index |-> instr_index,
                   start_time |-> start_time,
                   last_end_time |-> last_end_time,
                   address |-> address,
                   type |-> Resolve(layout, address),
                   info |-> IF value \in QSPI_READS THEN <<"QSPI">> ELSE <<>>])
           /\ last_start_time' = start_time
           /\ last_end_time' = IF instr_index > 0 THEN previous_end_time ELSE 0
           /\ last_index' = index
           /\ index' = index + 2
           /\ instr_index' = instr_index + 1
    /\ UNCHANGED <<end_time, pc, exc, inputVars, classifierVars, sessionVars>>

\* lines 488-489: any other pair of values
QuadSkip ==
    /\ pc = "value_loop"
    /\ index < Len(samples) - 1
    /\ ~ (At(samples, index) \in QUAD_READS /\ At(samples, index + 1) > 255)
    /\ index' = index + 1
    /\ UNCHANGED <<last_index, instr_index, last_start_time, last_end_time,
                   end_time, read_accesses, pc, exc, inputVars, classifierVars, sessionVars>>

\* lines 491-506: after the loop the access opened last is closed;
\* read_accesses[last_start_time] raises KeyError when there is none
QuadReturn ==
    /\ pc = "value_loop"
    /\ index >= Len(samples) - 1
    /\ IF last_start_time \notin DOMAIN read_accesses
       THEN /\ Raise("KeyError")
            /\ UNCHANGED read_accesses
       ELSE /\ read_accesses' = Put(read_accesses, last_start_time,
                   Finalize(read_accesses[last_start_time], index, last_index,
                            At(time, index - 1)))
            /\ pc' = "decoded"
            /\ exc' = exc
    /\ UNCHANGED <<decoderVars, inputVars, classifierVars, sessionVars>>

----------------------------------------------------------------------------
(* PSPTrace.__init__, lines 683-686: reads of size 0x40 are tagged 'CCP'.  *)
(* limit_rows is not given.                                                *)

CCP_SIZE == 64

AnnotateCCP(accesses) ==
    [k \in DOMAIN accesses |->
        IF accesses[k].size = CCP_SIZE
        THEN [accesses[k] EXCEPT !.info = Append(@, "CCP")]
        ELSE accesses[k]]

----------------------------------------------------------------------------
(* aggregate_duplicates. *)

MAXIMUM_AGGREGATION_COUNT == 8
DEQUE_MAXLEN == 200

\* deque(maxlen=200).append: a full deque drops its oldest element
DequeAppend(q, v) ==
    IF Len(q) >= DEQUE_MAXLEN THEN Append(Tail(q), v) ELSE Append(q, v)

\* recent_addresses.index(address)
IndexOf(s, v) == Min({i \in 1..Len(s) : s[i] = v})

MultiplicityTagOfOne(count) == "x1"

\* 'x%d' % duplicate_count
MultiplicityTag(count) == "x" \o ToString(count)

\* line 545: the original can still take a duplicate
BelowMaximum(count) == count < MAXIMUM_AGGREGATION_COUNT

RECURSIVE AggregateLoop(_, _, _, _, _)
\* lines 530-555, for the keys still to visit
AggregateLoop(keys, accesses, aggregated, recent_addresses, recent_originals) ==
    IF keys = <<>> THEN aggregated
    ELSE LET t == Head(keys)
             address == accesses[t].address
         IN  IF ~ Contains(recent_addresses, address)
             THEN AggregateLoop(Tail(keys), accesses,
                      Put(aggregated, t, Put(aggregated[t], "duplicate_count", 1)),
                      DequeAppend(recent_addresses, address),
                      DequeAppend(recent_originals, t))
             ELSE LET i == IndexOf(recent_addresses, address)
                      original_access_time == recent_originals[i]
                      original == aggregated[original_access_time]
                  IN  IF BelowMaximum(original.duplicate_count)
                      THEN AggregateLoop(Tail(keys), accesses,
                               Del(Put(aggregated, original_access_time,
                                       [original EXCEPT !.duplicate_count = @ + 1]), t),
                               recent_addresses, recent_originals)
                      ELSE AggregateLoop(Tail(keys), accesses,
                               Del(aggregated, t),
                               RemoveAt(recent_addresses, i),
                               RemoveAt(recent_originals, i))

aggregate_duplicates(accesses) ==
    LET aggregated == AggregateLoop(SortedKeys(accesses), accesses, accesses,
                                    <<>>, <<>>)
    IN  [k \in DOMAIN aggregated |->
            [aggregated[k] EXCEPT
                !.info = Append(@, MultiplicityTag(aggregated[k].duplicate_count))]]

----------------------------------------------------------------------------
(* collapse_entry_types. *)

NoAddress == -1

\* lines 572-577: last_access before the first access (address None)
NoLastAccess ==
    [type |-> None, address |-> NoAddress, size |-> NoAddress,
     duplicate_count |-> NoCount]

\* lines 611-616
LastAccessOf(values) ==
    [type |-> values.type, address |-> values.address, size |-> values.size,
     duplicate_count |-> Get(values, "duplicate_count", NoCount)]

CollapsesIgnoringType(values, last_access) ==
    /\ last_access.address # NoAddress
    /\ values.address <= last_access.address + last_access.size

\* lines 580-584
Collapses(values, last_access) ==
    /\ last_access.address # NoAddress
    /\ values.type = last_access.type
    /\ values.address <= last_access.address + last_access.size

MergedFuzzyEveryChange(prev_values, values, last_access) ==
    LET tagged == IF Contains(prev_values.info, "[c]")
                  THEN prev_values.info
                  ELSE Append(prev_values.info, "[c]")
        fuzzy == IF Get(values, "duplicate_count", NoCount) # last_access.duplicate_count
                 THEN Append(tagged, "~")
                 ELSE tagged
    IN  [instr_index |-> prev_values.instr_index,
         start_time |-> prev_values.start_time,
         end_time |-> values.end_time,
         duration |-> prev_values.duration + values.duration,
         latency |-> prev_values.latency,
         address |-> prev_values.address,
         size |-> prev_values.size + values.size,
         type |-> prev_values.type,
         info |-> fuzzy]

\* lines 586-606: values merged into the record collapsed last
Merged(prev_values, values, last_access) ==
    LET tagged == IF Contains(prev_values.info, "[c]")
                  THEN prev_values.info
                  ELSE Append(prev_values.info, "[c]")
        fuzzy == IF /\ Get(values, "duplicate_count", NoCount) # last_access.duplicate_count
                    /\ ~ Contains(tagged, "~")
                 THEN Append(tagged, "~")
                 ELSE tagged
    IN  [instr_index |-> prev_values.instr_index,
         start_time |-> prev_values.start_time,
         end_time |-> values.end_time,
         duration |-> prev_values.duration + values.duration,
         latency |-> prev_values.latency,
         address |-> prev_values.address,
         size |-> prev_values.size + values.size,
         type |-> prev_values.type,
         info |-> fuzzy]

RECURSIVE CollapseLoop(_, _, _, _)
\* lines 579-616, for the keys still to visit
CollapseLoop(keys, accesses, collapsed, last_access) ==
    IF keys = <<>> THEN collapsed
    ELSE LET values == accesses[Head(keys)]
             n == Len(collapsed)
         IN  CollapseLoop(Tail(keys), accesses,
                 IF Collapses(values, last_access)
                 THEN [collapsed EXCEPT ![n] = Merged(collapsed[n], values, last_access)]
                 ELSE Append(collapsed, values),
                 LastAccessOf(values))

RECURSIVE DictByEndTime(_)
DictByEndTime(list) ==
    IF list = <<>> THEN <<>>
    ELSE Put(DictByEndTime(SubSeq(list, 1, Len(list) - 1)),
             list[Len(list)].end_time, list[Len(list)])

RECURSIVE DictByStartTime(_)
\* {values['start_time']: values for values in collapsed_read_accesses}
DictByStartTime(list) ==
    IF list = <<>> THEN <<>>
    ELSE Put(DictByStartTime(SubSeq(list, 1, Len(list) - 1)),
             list[Len(list)].start_time, list[Len(list)])

collapse_entry_types(accesses) ==
    DictByStartTime(CollapseLoop(SortedKeys(accesses), accesses, <<>>, NoLastAccess))

----------------------------------------------------------------------------
(* do_normalize_timestamps, for a collection that is not empty (min() of   *)
(* an empty collection raises ValueError).                                 *)

ShiftEndOnly(v, min_time) == [v EXCEPT !.end_time = @ - min_time]

\* lines 627-628
Shift(v, min_time) ==
    [v EXCEPT !.start_time = @ - min_time, !.end_time = @ - min_time]

do_normalize_by_end_time(accesses) ==
    LET min_time == Min({accesses[k].end_time : k \in DOMAIN accesses})
    IN  [k \in DOMAIN accesses |-> Shift(accesses[k], min_time)]

do_normalize_timestamps(accesses) ==
    LET min_time == Min({accesses[k].start_time : k \in DOMAIN accesses})
    IN  [k \in DOMAIN accesses |-> Shift(accesses[k], min_time)]

----------------------------------------------------------------------------
(* get_overview_read_accesses. *)

TIME_BLOCK_LATENCY_THRESHOLD == 50

\* lines 646 and 650: the latency in microseconds is above the threshold
NewTimeBlock(values) == values.latency \div 1000 > TIME_BLOCK_LATENCY_THRESHOLD

\* (values['type'], is_ccp)
TypeAndCCP(values) == <<values.type, Contains(values.info, "CCP")>>

\* lines 656-660
Summary(values) ==
    Put(Put(values, "lowest_access", values.address),
        "highest_access", values.address + values.size)

\* lines 662-669
Widened(row, values) ==
    [row EXCEPT !.lowest_access = Min({@, values.address}),
                !.highest_access = Max({@, values.address + values.size})]

RECURSIVE OverviewLoop(_, _, _, _)
\* lines 645-669, for the keys still to visit
OverviewLoop(keys, accesses, overview_read_accesses, known_types) ==
    IF keys = <<>> THEN overview_read_accesses
    ELSE LET start_time == Head(keys)
             values == accesses[start_time]
             known == IF NewTimeBlock(values) THEN <<>> ELSE known_types
             pair == TypeAndCCP(values)
         IN  IF pair \notin DOMAIN known
             THEN OverviewLoop(Tail(keys), accesses,
                      Put(overview_read_accesses, start_time, Summary(values)),
                      Put(known, pair, start_time))
             ELSE OverviewLoop(Tail(keys), accesses,
                      Put(overview_read_accesses, known[pair],
                          Widened(overview_read_accesses[known[pair]], values)),
                      known)

get_overview_read_accesses(accesses) ==
    OverviewLoop(SortedKeys(accesses), accesses, <<>>, <<>>)

----------------------------------------------------------------------------
(* get_database: the decoded capture is kept in a file next to the csv     *)
(* file.  The file is a dict; `exists` says whether the file is there.     *)

NoDatabase == [exists |-> FALSE, data |-> <<>>]

CompleteWithAccesses(database) ==
    /\ database.exists
    /\ "read_accesses" \in DOMAIN database.data

\* lines 273 and 281: the file exists and has both fields
Complete(database) ==
    /\ database.exists
    /\ "raw" \in DOMAIN database.data
    /\ "read_accesses" \in DOMAIN database.data

\* lines 296-332: the rows of the csv file
Raw == [time |-> time, samples |-> samples]

\* lines 271-287: the database is returned as loaded, or the csv is read
LoadDatabase ==
    /\ pc = "get_database"
    /\ IF Complete(cache)
       THEN /\ read_accesses' = cache.data.read_accesses
            /\ pc' = "loaded"
       ELSE /\ read_accesses' = read_accesses
            /\ pc' = "find_read_accesses"
    /\ UNCHANGED <<decoderVars, exc, inputVars, classifierVars, sessionVars>>

\* lines 335-342: find_read_accesses has returned; the database is written
StoreDatabase ==
    /\ pc = "decoded"
    /\ cache' = [exists |-> TRUE,
                 data |-> [raw |-> Raw, read_accesses |-> read_accesses]]
    /\ pc' = "loaded"
    /\ UNCHANGED <<decoderVars, read_accesses, exc, inputVars, classifierVars,
                   overview, invocations>>

----------------------------------------------------------------------------
(* main(): PSPTrace(...), then display_overview or display_all. *)

DispatchToAll(a) == "aggregate"

\* lines 821-825
Dispatch(a) == IF a.overview_mode THEN "overview" ELSE "aggregate"

\* get_database has returned data, lines 678-686
Annotate ==
    /\ pc = "loaded"
    /\ read_accesses' = AnnotateCCP(read_accesses)
    /\ pc' = Dispatch(args)
    /\ UNCHANGED <<decoderVars, exc, inputVars, classifierVars, sessionVars>>

\* lines 733-734
DisplayAggregate ==
    /\ pc = "aggregate"
    /\ read_accesses' = IF args.no_duplicates
                        THEN aggregate_duplicates(read_accesses)
                        ELSE read_accesses
    /\ pc' = "collapse"
    /\ UNCHANGED <<decoderVars, exc, inputVars, classifierVars, sessionVars>>

\* lines 735-736
DisplayCollapse ==
    /\ pc = "collapse"
    /\ read_accesses' = IF args.collapse
                        THEN collapse_entry_types(read_accesses)
                        ELSE read_accesses
    /\ pc' = "normalize"
    /\ UNCHANGED <<decoderVars, exc, inputVars, classifierVars, sessionVars>>

\* lines 737-738
DisplayNormalize ==
    /\ pc = "normalize"
    /\ IF args.normalize_timestamps /\ DOMAIN read_accesses = {}
       THEN /\ Raise("ValueError")
            /\ UNCHANGED read_accesses
       ELSE /\ read_accesses' = IF args.normalize_timestamps
                                THEN do_normalize_timestamps(read_accesses)
                                ELSE read_accesses
            /\ pc' = "render"
            /\ exc' = exc
    /\ UNCHANGED <<decoderVars, inputVars, classifierVars, sessionVars>>

\* line 695: the overview is computed; the accesses are left as they are
DisplayOverview ==
    /\ pc = "overview"
    /\ overview' = get_overview_read_accesses(read_accesses)
    /\ pc' = "render"
    /\ UNCHANGED <<decoderVars, read_accesses, exc, inputVars, classifierVars,
                   cache, invocations>>

HexDigits ==
    <<"0", "1", "2", "3", "4", "5", "6", "7", "8", "9", "a", "b", "c", "d", "e", "f">>

RECURSIVE Hex(_, _)
\* '%.2x' % n, '%.6x' % n: n >= 0 in hexadecimal, with at least `digits`
\* digits
Hex(n, digits) ==
    IF n < 16 /\ digits <= 1 THEN HexDigits[n + 1]
    ELSE Hex(n \div 16, digits - 1) \o HexDigits[(n % 16) + 1]

RECURSIVE Join(_)
\* ' '.join(info)
Join(info) ==
    IF info = <<>> THEN ""
    ELSE IF Len(info) = 1 THEN info[1]
    ELSE info[1] \o " " \o Join(Tail(info))

\* Entry.DIRECTORY_ENTRY_TYPES of psptool, a table from entry types to
\* their names.  psptool is no part of this repository, so the table is an
\* input of the display: it may name none of the types, or some of them.
EntryTypeTables ==
    {[type_ \in {} |-> ""],
     [type_ \in {"0x1"} |-> "PSP_FW_BOOT_LOADER"],
     [type_ \in {"0x1", "0x8"} |-> IF type_ = "0x1" THEN "PSP_FW_BOOT_LOADER"
                                   ELSE "SMU_OFFCHIP_FW"]}

\* lines 757-762 and 701-706; an entry type that is not in the table is
\* shown as its hexadecimal string, which is how the model holds it
FormatType(type_, entry_types) ==
    IF type_ = None THEN "Unknown area"
    ELSE IF type_ \in DOMAIN entry_types THEN entry_types[type_]
    ELSE type_

\* lines 757-774: what the loop of display_all leaves in a record
FormatAccess(values, entry_types) ==
    [values EXCEPT !.type = FormatType(@, entry_types),
                   !.info = Join(@),
                   !.size = "0x" \o Hex(@, 2),
                   !.address = "0x" \o Hex(@, 6)]

\* lines 701-718: what the loop of display_overview leaves in a record
FormatSummary(v, entry_types) ==
    [v EXCEPT !.type = FormatType(@, entry_types), !.info = Join(@)]

\* lines 753-784: the rows of the table are made from the records, which
\* are rewritten in place; the table is printed and not kept
DisplayRows ==
    /\ pc = "render"
    /\ ~ args.overview_mode
    /\ \E entry_types \in EntryTypeTables :
           read_accesses' = [k \in DOMAIN read_accesses |->
                                FormatAccess(read_accesses[k], entry_types)]
    /\ pc' = "done"
    /\ UNCHANGED <<decoderVars, exc, inputVars, classifierVars, sessionVars>>

\* lines 689, 697-729: the same for the records of the overview, which are
\* copies: the accesses are left as they are
DisplayOverviewRows ==
    /\ pc = "render"
    /\ args.overview_mode
    /\ \E entry_types \in EntryTypeTables :
           overview' = [k \in DOMAIN overview |->
                           FormatSummary(overview[k], entry_types)]
    /\ pc' = "done"
    /\ UNCHANGED <<decoderVars, read_accesses, exc, inputVars, classifierVars,
                   cache, invocations>>

InitRun(f, sampleSet, argSet) ==
    /\ layout = DecoderLayout
    /\ fmt = f
    /\ samples \in sampleSet
    /\ time \in Clocks(Len(samples))
    /\ args \in argSet
    /\ index = 0
    /\ last_index = 0
    /\ instr_index = 0
    /\ last_start_time = 0
    /\ last_end_time = 0
    /\ end_time = 0
    /\ read_accesses = <<>>
    /\ pc = "find_read_accesses"
    /\ exc = "none"
    /\ probe = 0
    /\ resolved = None
    /\ cache = NoDatabase
    /\ overview = <<>>
    /\ invocations = 1

InitMosi == InitRun("mosi", SeqsUpTo(MosiBytes, MaxSamples), {NoArgs})

NextMosi ==
    \/ Prologue
    \/ MosiRead
    \/ MosiKnown
    \/ MosiUnknown
    \/ MosiReturn

SpecMosi == InitMosi /\ [][NextMosi]_vars

InitQuad == InitRun("value", SeqsUpTo(QuadValues, MaxQuadSamples), {NoArgs})

NextQuad ==
    \/ Prologue
    \/ QuadOpen
    \/ QuadSkip
    \/ QuadReturn

SpecQuad == InitQuad /\ [][NextQuad]_vars

InitPipeline ==
    \/ InitRun("mosi", {<<READ_DATA>> \o s : s \in SeqsUpTo(PipelineBytes, MaxSamples - 1)},
               Selections)
    \/ InitRun("value", SeqsUpTo(PipelineValues, MaxQuadSamples), Selections)

Next ==
    \/ Prologue
    \/ MosiRead
    \/ MosiKnown
    \/ MosiUnknown
    \/ MosiReturn
    \/ QuadOpen
    \/ QuadSkip
    \/ QuadReturn
    \/ StoreDatabase
    \/ Annotate
    \/ DisplayOverview
    \/ DisplayAggregate
    \/ DisplayCollapse
    \/ DisplayNormalize
    \/ DisplayRows
    \/ DisplayOverviewRows

Spec == InitPipeline /\ [][Next]_vars

----------------------------------------------------------------------------
(* display_overview and display_all on access collections given directly. *)

RunAddresses == {16, 32}
SmallAddresses == {16, 17, 20}
SmallSizes == {1, 4}
SmallTypes == {"0x1", None}

\* the i-th access of a collection: 4 ns long, 6 ns after the one before
Access(i, address, size, type) ==
    [instr_index |-> i - 1,
     start_time |-> 10 * i,
     end_time |-> 10 * i + 4,
     duration |-> 4,
     latency |-> IF i = 1 THEN 10 ELSE 6,
     address |-> address,
     size |-> size,
     type |-> type,
     info |-> <<>>]

CollectionOf(list) ==
    [k \in {10 * i : i \in 1..Len(list)} |->
        Access(k \div 10, list[k \div 10].address, list[k \div 10].size,
               list[k \div 10].type)]

\* up to MaxRun accesses of one size and type to one of two addresses
RunCollections ==
    {CollectionOf(l) :
        l \in SeqsUpTo([address : RunAddresses, size : {1}, type : {"0x1"}], MaxRun)}

\* up to MaxAccesses accesses of any address, size and type
SmallCollections ==
    {CollectionOf(l) :
        l \in SeqsUpTo([address : SmallAddresses, size : SmallSizes, type : SmallTypes],
                       MaxAccesses)}

MixedAddresses == {16, 17, 18}

\* MaxMixed accesses of one size and type to adjacent addresses: aggregated,
\* they have several multiplicities and still collapse into one record
MixedCollections ==
    {CollectionOf(l) :
        l \in [1..MaxMixed -> [address : MixedAddresses, size : {1}, type : {"0x1"}]]}

InitPost ==
    /\ layout = <<>>
    /\ fmt = "none"
    /\ samples = <<>>
    /\ time = <<>>
    /\ args \in Selections
    /\ index = 0
    /\ last_index = 0
    /\ instr_index = 0
    /\ last_start_time = 0
    /\ last_end_time = 0
    /\ end_time = 0
    /\ read_accesses \in RunCollections \cup SmallCollections \cup MixedCollections
    /\ pc = Dispatch(args)
    /\ exc = "none"
    /\ probe = 0
    /\ resolved = None
    /\ cache = NoDatabase
    /\ overview = <<>>
    /\ invocations = 1

NextPost ==
    \/ DisplayOverview
    \/ DisplayAggregate
    \/ DisplayCollapse
    \/ DisplayNormalize
    \/ DisplayRows
    \/ DisplayOverviewRows

SpecPost == InitPost /\ [][NextPost]_vars

----------------------------------------------------------------------------
(* Repeated runs of main() on one capture, with the database file kept     *)
(* between the runs and the firmware image chosen anew for every run.      *)

\* a firmware image that labels the addresses of DecoderLayout differently
OtherLayout ==
    <<[address |-> 0, length |-> 512, magic |-> "$BHD",
       entries |-> <<[address |-> 0, buffer_size |-> Word(16), type |-> "0x62"]>>]>>

CacheLayouts == {DecoderLayout, OtherLayout}

\* the file is missing, or was left by a version that stored one field only
InitialDatabases ==
    {NoDatabase,
     [exists |-> TRUE, data |-> [raw |-> Raw]],
     [exists |-> TRUE, data |-> [read_accesses |-> <<>>]]}

InitCache ==
    /\ layout \in CacheLayouts
    /\ \/ /\ fmt = "mosi"
          /\ samples \in SeqsUpTo(PipelineBytes, MaxCachedSamples)
       \/ /\ fmt = "value"
          /\ samples \in SeqsUpTo(PipelineValues, MaxCachedSamples)
    /\ time = Clock(Len(samples), 0, 1)
    /\ args = NoArgs
    /\ index = 0
    /\ last_index = 0
    /\ instr_index = 0
    /\ last_start_time = 0
    /\ last_end_time = 0
    /\ end_time = 0
    /\ read_accesses = <<>>
    /\ pc = "get_database"
    /\ exc = "none"
    /\ probe = 0
    /\ resolved = None
    /\ cache \in InitialDatabases
    /\ overview = <<>>
    /\ invocations = 1

\* main() is started again on the same csv file, with a firmware image of
\* the caller's choice; the database file is what the last run left
Invoke ==
    /\ pc \in {"done", "raised"}
    /\ invocations < MaxInvocations
    /\ invocations' = invocations + 1
    /\ layout' \in CacheLayouts
    /\ index' = 0
    /\ last_index' = 0
    /\ instr_index' = 0
    /\ last_start_time' = 0
    /\ last_end_time' = 0
    /\ end_time' = 0
    /\ read_accesses' = <<>>
    /\ overview' = <<>>
    /\ pc' = "get_database"
    /\ exc' = "none"
    /\ UNCHANGED <<fmt, time, samples, args, classifierVars, cache>>

NextCache ==
    \/ Invoke
    \/ LoadDatabase
    \/ Prologue
    \/ MosiRead
    \/ MosiKnown
    \/ MosiUnknown
    \/ MosiReturn
    \/ QuadOpen
    \/ QuadSkip
    \/ QuadReturn
    \/ StoreDatabase
    \/ Annotate
    \/ DisplayAggregate
    \/ DisplayCollapse
    \/ DisplayNormalize
    \/ DisplayRows

SpecCache == InitCache /\ [][NextCache]_vars

----------------------------------------------------------------------------
(* display_overview on access collections given directly. *)

OverviewAddresses == {16, 32}
OverviewSizes == {1, CCP_SIZE}
OverviewLatencies == {50999, 51000}

\* up to MaxAccesses accesses; a latency of 51000 ns starts a time block
OverviewCollections ==
    {[k \in DOMAIN CollectionOf(l) |->
         [CollectionOf(l)[k] EXCEPT !.latency = l[k \div 10].latency]] :
        l \in SeqsUpTo([address : OverviewAddresses, size : OverviewSizes,
                        type : SmallTypes, latency : OverviewLatencies],
                       MaxAccesses)}

InitOverview ==
    /\ layout = <<>>
    /\ fmt = "none"
    /\ samples = <<>>
    /\ time = <<>>
    /\ args = [NoArgs EXCEPT !.overview_mode = TRUE]
    /\ index = 0
    /\ last_index = 0
    /\ instr_index = 0
    /\ last_start_time = 0
    /\ last_end_time = 0
    /\ end_time = 0
    /\ read_accesses \in OverviewCollections
    /\ pc = "loaded"
    /\ exc = "none"
    /\ probe = 0
    /\ resolved = None
    /\ cache = NoDatabase
    /\ overview = <<>>
    /\ invocations = 1

NextOverview ==
    \/ Annotate
    \/ DisplayOverview
    \/ DisplayOverviewRows

SpecOverview == InitOverview /\ [][NextOverview]_vars

----------------------------------------------------------------------------
(* The classifier on firmware layouts given directly. *)

EntryChoices ==
    [address : {16, 17}, buffer_size : {Word(0), Word(1), Word(2), UNBOUNDED_SIZE},
     type : {"0x1", "0x8"}]

\* a second directory, whose entry has the bounds of the entry table
SecondDirectory ==
    [address |-> 18, length |-> 2, magic |-> "$BHD",
     entries |-> <<[address |-> ENTRY_TABLE_START, buffer_size |-> Word(64),
                    type |-> "0x62"]>>]

Layouts ==
    LET first == {[address |-> a, length |-> 2, magic |-> "$PSP", entries |-> es] :
                     a \in {16, 17}, es \in SeqsUpTo(EntryChoices, MaxEntries)}
    IN  {<<>>} \cup {<<d>> : d \in first} \cup {<<d, SecondDirectory>> : d \in first}

ProbeAddresses == 15..19 \cup {131071, 131072, 131136}

InitClassifier ==
    /\ layout \in Layouts
    /\ fmt = "none"
    /\ samples = <<>>
    /\ time = <<>>
    /\ args = NoArgs
    /\ index = 0
    /\ last_index = 0
    /\ instr_index = 0
    /\ last_start_time = 0
    /\ last_end_time = 0
    /\ end_time = 0
    /\ read_accesses = <<>>
    /\ pc = "classify"
    /\ exc = "none"
    /\ probe = -1
    /\ resolved = None
    /\ cache = NoDatabase
    /\ overview = <<>>
    /\ invocations = 1

\* type_ = type_at_address_range[address]
Lookup ==
    /\ pc = "classify"
    /\ \E address \in ProbeAddresses :
        /\ probe' = address
        /\ resolved' = Resolve(layout, address)
    /\ UNCHANGED <<decoderVars, read_accesses, pc, exc, inputVars, sessionVars>>

NextClassifier == Lookup

SpecClassifier == InitClassifier /\ [][NextClassifier]_vars

----------------------------------------------------------------------------
(* Properties. *)

RECURSIVE SumOver(_, _)
SumOver(f, S) == IF S = {} THEN 0 ELSE f[Min(S)] + SumOver(f, S \ {Min(S)})

\* C1: the single-line decoder never raises on a capture that is not empty:
\* a read opcode within its frame length of the end of the stream is clipped
\* to the stream end.
C1_MosiNeverRaises ==
    (fmt = "mosi" /\ Len(samples) > 0) => pc # "raised"

\* C2: the quad-I/O decoder never raises, whatever the capture: fewer than
\* two samples, or no pair of samples that starts a read, give an access
\* collection (an empty one).
C2_QuadNeverRaises ==
    fmt = "value" => pc # "raised"

\* C3: when the scan loop of the single-line decoder ends, the cursor is
\* exactly the number of samples, never beyond it.
C3_CursorEndsAtLength ==
    (fmt = "mosi" /\ pc = "decoded") => index = Len(samples)

\* Python indices above 4 that hold an opcode of the catalog
OpcodesAfterFrame ==
    {i \in 5..(Len(samples) - 1) : At(samples, i) \in WINBOND_INSTRUCTIONS}

FirstReadDone ==
    /\ fmt = "mosi"
    /\ pc = "mosi_loop"
    /\ instr_index = 1
    /\ At(samples, 0) = READ_DATA
    /\ OpcodesAfterFrame # {}

\* C4: when sample 0 is Read Data and p is the smallest index above 4 that
\* holds a catalog opcode, the first access emitted has instr_index 0, the
\* big-endian address of samples 1..3 and size p - 4.
C4_FirstReadData ==
    FirstReadDone =>
        LET p == Min(OpcodesAfterFrame)
            t == At(time, 0)
        IN  /\ t \in DOMAIN read_accesses
            /\ read_accesses[t].instr_index = 0
            /\ read_accesses[t].address =
                   At(samples, 1) * 65536 + At(samples, 2) * 256 + At(samples, 3)
            /\ read_accesses[t].size = p - 4

C4_Witness ==
    /\ FirstReadDone
    /\ Min(OpcodesAfterFrame) = 6
    /\ At(samples, 2) = READ_DATA
    /\ read_accesses[At(time, 0)].size = 2
    /\ read_accesses[At(time, 0)].address = 768

Emitted == pc \in {"decoded", "loaded", "overview", "aggregate", "collapse", "normalize", "render"}

\* C5: with a non-negative, non-decreasing sample clock every access either
\* decoder emits, and every record left by the enabled stages of
\* aggregate -> collapse -> normalize, has end_time >= start_time and
\* latency >= 0.
C5_TimesOrdered ==
    \A k \in DOMAIN read_accesses :
        LET r == read_accesses[k]
        IN  /\ Emitted => {"end_time", "latency"} \subseteq DOMAIN r
            /\ "end_time" \in DOMAIN r => r.end_time >= r.start_time
            /\ "latency" \in DOMAIN r => r.latency >= 0

C5_Witness ==
    /\ pc = "render"
    /\ args.collapse
    /\ args.normalize_timestamps
    /\ \E k \in DOMAIN read_accesses :
        /\ Contains(read_accesses[k].info, "[c]")
        /\ read_accesses[k].end_time > read_accesses[k].start_time
        /\ read_accesses[k].latency >= 0

SameAddress(accesses) ==
    \A j, k \in DOMAIN accesses : accesses[j].address = accesses[k].address

Aggregating == pc = "aggregate" /\ args.no_duplicates

ExpectedTag == <<"x1", "x2", "x3", "x4", "x5", "x6", "x7", "x8">>

\* C6: aggregate_duplicates on N accesses to one address, 1 <= N <= 8,
\* leaves exactly one record: the earliest one, with duplicate_count N and
\* the tag 'xN'.
C6_AggregateUpToMaximum ==
    [][(/\ Aggregating
        /\ DOMAIN read_accesses # {}
        /\ Cardinality(DOMAIN read_accesses) <= MAXIMUM_AGGREGATION_COUNT
        /\ SameAddress(read_accesses))
       => LET first == Min(DOMAIN read_accesses)
              n == Cardinality(DOMAIN read_accesses)
          IN  /\ DOMAIN read_accesses' = {first}
              /\ read_accesses'[first].duplicate_count = n
              /\ read_accesses'[first].info =
                     Append(read_accesses[first].info, ExpectedTag[n])
              /\ \A f \in (DOMAIN read_accesses[first]) \ {"info"} :
                     read_accesses'[first][f] = read_accesses[first][f]]_vars

C6_Witness ==
    /\ pc = "collapse"
    /\ args.no_duplicates
    /\ DOMAIN read_accesses = {10}
    /\ read_accesses[10].duplicate_count = 7
    /\ read_accesses[10].info = <<"x7">>

\* C7: aggregate_duplicates on N > 8 accesses to one address leaves at least
\* two records whose duplicate_count values sum to N.
C7_AggregateAboveMaximum ==
    [][(/\ Aggregating
        /\ Cardinality(DOMAIN read_accesses) > MAXIMUM_AGGREGATION_COUNT
        /\ SameAddress(read_accesses))
       => /\ Cardinality(DOMAIN read_accesses') >= 2
          /\ SumOver([k \in DOMAIN read_accesses' |-> read_accesses'[k].duplicate_count],
                     DOMAIN read_accesses')
                 = Cardinality(DOMAIN read_accesses)]_vars

Collapsing == pc = "collapse" /\ args.collapse

\* b, next after a in start-time order, is merged with a
PairMerges(a, b) == a.type = b.type /\ b.address <= a.address + a.size

\* the surviving record that holds the access that started at t
Holder(accesses, t) == Max({k \in DOMAIN accesses : k <= t})

\* C8 as stated: adjacent accesses of one type with addr2 <= addr1 + size1
\* are merged into one record with address addr1 and size size1 + size2;
\* adjacent accesses of different types are never merged.
C8_PairwiseMerge ==
    [][Collapsing =>
          LET ks == SortedKeys(read_accesses)
          IN  \A i \in 1..(Len(ks) - 1) :
                  LET a == read_accesses[ks[i]]
                      b == read_accesses[ks[i + 1]]
                      h == Holder(read_accesses', ks[i])
                  IN  /\ PairMerges(a, b) =>
                             /\ ks[i + 1] \notin DOMAIN read_accesses'
                             /\ read_accesses'[h].address = a.address
                             /\ read_accesses'[h].size = a.size + b.size
                      /\ a.type # b.type => ks[i + 1] \in DOMAIN read_accesses']_vars

\* i starts a surviving record: it is first, or is not merged with i - 1
StartsRecord(accesses, ks, i) ==
    i = 1 \/ ~ PairMerges(accesses[ks[i - 1]], accesses[ks[i]])

\* the accesses merged into the record that i starts
MergedInto(accesses, ks, i) ==
    {j \in i..Len(ks) : \A m \in (i + 1)..j : ~ StartsRecord(accesses, ks, m)}

\* C8, amended: adjacent accesses of one type with addr2 <= addr1 + size1
\* end in one surviving record, which has the address of the first access
\* merged into it and the sum of the sizes of all accesses merged into it
\* (addr1 and size1 + size2 when these two are all of them); adjacent
\* accesses of different types are never merged.
C8_MergeRuns ==
    [][Collapsing =>
          LET ks == SortedKeys(read_accesses)
              starts == {i \in 1..Len(ks) : StartsRecord(read_accesses, ks, i)}
          IN  /\ DOMAIN read_accesses' = {ks[i] : i \in starts}
              /\ \A i \in starts :
                    /\ read_accesses'[ks[i]].address = read_accesses[ks[i]].address
                    /\ read_accesses'[ks[i]].size =
                           SumOver([j \in 1..Len(ks) |-> read_accesses[ks[j]].size],
                                   MergedInto(read_accesses, ks, i))
              /\ \A i \in 1..(Len(ks) - 1) :
                    read_accesses[ks[i]].type # read_accesses[ks[i + 1]].type
                        => ks[i + 1] \in DOMAIN read_accesses']_vars

C8_Witness ==
    /\ pc = "normalize"
    /\ args.collapse
    /\ ~ args.no_duplicates
    /\ DOMAIN read_accesses = {10}
    /\ read_accesses[10].address = 16
    /\ read_accesses[10].size = 9
    /\ Contains(read_accesses[10].info, "[c]")

\* the ranges find_read_accesses registers, in the order it registers them:
\* the entries with a size, the directories, the entry table
Registered ==
    LET es == SelectSeq(all_entries(layout), LAMBDA e : e.buffer_size # UNBOUNDED_SIZE)
        entryRanges == [i \in 1..Len(es) |->
                           [lo |-> es[i].address,
                            hi |-> WordAdd(es[i].address, es[i].buffer_size),
                            type |-> es[i].type]]
        directoryRanges == [i \in 1..Len(layout) |->
                               [lo |-> layout[i].address,
                                hi |-> Word(layout[i].address + layout[i].length),
                                type |-> "Directory: " \o layout[i].magic]]
    IN  entryRanges \o directoryRanges
            \o <<[lo |-> 131072, hi |-> Word(131136), type |-> "Firmware Entry Table"]>>

\* the registered ranges that contain the address, ranges being half-open
ContainingIn(ranges, address) ==
    {i \in 1..Len(ranges) :
        ranges[i].lo <= address /\ WordLess(Word(address), ranges[i].hi)}

Containing(address) == ContainingIn(Registered, address)

Looked == pc = "classify" /\ probe # -1

\* C9: an address resolves to the type of the first-registered range that
\* contains it; a range registered later, overlapping or with the same
\* bounds, never changes that.
C9_FirstRegisteredWins ==
    Looked => resolved = IF Containing(probe) = {} THEN None
                         ELSE Registered[Min(Containing(probe))].type

\* C10 as stated: the start of a region resolves to that region; start +
\* size resolves to a registered region that contains it, or to None; an
\* address in no registered range resolves to None; an entry of size
\* 0xffffffff is never matched.
C10_HalfOpenRanges ==
    Looked =>
        /\ \A i \in 1..Len(Registered) :
              /\ probe = Registered[i].lo => resolved = Registered[i].type
              /\ Word(probe) = Registered[i].hi =>
                     resolved \in IF Containing(probe) = {} THEN {None}
                                  ELSE {Registered[j].type : j \in Containing(probe)}
        /\ Containing(probe) = {} => resolved = None

\* C10, amended: the start of a region that is not empty resolves to that
\* region when no other registered range contains the address; start + size
\* resolves to a registered region that contains it, or to None; an address
\* in no registered range resolves to None; an entry of size 0xffffffff is
\* never matched.
C10_HalfOpenRangesApart ==
    Looked =>
        LET ranges == Registered
            containing == ContainingIn(ranges, probe)
        IN  /\ \A i \in 1..Len(ranges) :
                  /\ (/\ probe = ranges[i].lo
                      /\ containing = {i}) => resolved = ranges[i].type
                  /\ Word(probe) = ranges[i].hi =>
                         resolved \in IF containing = {} THEN {None}
                                      ELSE {ranges[j].type : j \in containing}
            /\ containing = {} => resolved = None

\* address 18 is the end of an entry and of the first directory, the start
\* of the second directory, and inside an entry of size 0xffffffff
C10_Witness ==
    /\ Looked
    /\ probe = 18
    /\ Len(layout) = 2
    /\ layout[1].address = 16
    /\ layout[1].length = 2
    /\ layout[1].entries = <<[address |-> 17, buffer_size |-> UNBOUNDED_SIZE, type |-> "0x1"],
                             [address |-> 17, buffer_size |-> Word(1), type |-> "0x8"]>>
    /\ resolved = "Directory: $BHD"

\* the start time of the access that opened the time block of the access
\* that started at k: the latest one up to k with a latency above the
\* threshold of 50 us, that is above 50,000 ns
BlockOf(k) ==
    Max({Min(DOMAIN read_accesses)}
            \cup {j \in DOMAIN read_accesses :
                     /\ j <= k
                     /\ read_accesses[j].latency > TIME_BLOCK_LATENCY_THRESHOLD * 1000})

\* the accesses of the time block of k with the type and CCP flag of k
SamePair(k) ==
    {j \in DOMAIN read_accesses :
        /\ BlockOf(j) = BlockOf(k)
        /\ read_accesses[j].type = read_accesses[k].type
        /\ Contains(read_accesses[j].info, "CCP") = Contains(read_accesses[k].info, "CCP")}

OverviewDone == pc = "render" /\ args.overview_mode

\* C11: in the overview, the accesses of one time block that share a
\* (type, is-CCP) pair give exactly one row, keyed by the first of them, with
\* the lowest address and the highest address + size among them; an access
\* with a latency above the threshold starts a new block, whose accesses open
\* new rows and widen no earlier row.
C11_OneRowPerPairAndBlock ==
    OverviewDone =>
        LET firsts == {k \in DOMAIN read_accesses : k = Min(SamePair(k))}
        IN  /\ DOMAIN overview = firsts
            /\ \A k \in firsts :
                  /\ overview[k].lowest_access =
                         Min({read_accesses[j].address : j \in SamePair(k)})
                  /\ overview[k].highest_access =
                         Max({read_accesses[j].address + read_accesses[j].size :
                                 j \in SamePair(k)})

Normalizing == pc = "normalize" /\ args.normalize_timestamps

\* C12: do_normalize_timestamps is idempotent on a collection that is not
\* empty: a second application leaves the keys and every start_time and
\* end_time as the first one made them, and after the first application the
\* smallest start_time is 0.
C12_NormalizeIdempotent ==
    [][(Normalizing /\ DOMAIN read_accesses # {})
       => LET once == read_accesses'
              twice == do_normalize_timestamps(once)
          IN  /\ DOMAIN twice = DOMAIN once
              /\ \A k \in DOMAIN once :
                    /\ twice[k].start_time = once[k].start_time
                    /\ twice[k].end_time = once[k].end_time
              /\ Min({once[k].start_time : k \in DOMAIN once}) = 0]_vars

C12_Witness ==
    /\ pc = "render"
    /\ args.normalize_timestamps
    /\ ~ args.collapse
    /\ ~ args.no_duplicates
    /\ DOMAIN read_accesses = {10, 20}
    /\ read_accesses[10].start_time = 0
    /\ read_accesses[10].end_time = 4
    /\ read_accesses[20].start_time = 10
    /\ read_accesses[20].end_time = 14

Stages == {"aggregate", "collapse", "normalize"}

\* C13: display_all applies the enabled stages in the order
\* aggregate_duplicates, collapse_entry_types, do_normalize_timestamps, each
\* on the output of the stage before; in overview mode none of the three is
\* applied, whatever the other toggles are.
C13_StageOrder ==
    [][/\ pc = "aggregate" =>
             /\ pc' = "collapse"
             /\ read_accesses' = IF args.no_duplicates
                                 THEN aggregate_duplicates(read_accesses)
                                 ELSE read_accesses
       /\ pc = "collapse" =>
             /\ pc' = "normalize"
             /\ read_accesses' = IF args.collapse
                                 THEN collapse_entry_types(read_accesses)
                                 ELSE read_accesses
       /\ pc = "normalize" =>
             /\ pc' \in {"render", "raised"}
             /\ pc' = "render" =>
                    read_accesses' = IF args.normalize_timestamps
                                     THEN do_normalize_timestamps(read_accesses)
                                     ELSE read_accesses
       /\ args.overview_mode =>
             /\ pc \notin Stages
             /\ pc' \notin Stages
             /\ read_accesses' = read_accesses]_vars

\* all three stages have acted: two accesses to 16 were aggregated, the
\* access to 17 was collapsed into them, and the record starts at time 0
C13_Witness ==
    /\ pc = "render"
    /\ args.no_duplicates /\ args.collapse /\ args.normalize_timestamps
    /\ DOMAIN read_accesses = {10}
    /\ read_accesses[10].info = <<"x2", "[c]", "~">>
    /\ read_accesses[10].start_time = 0
    /\ read_accesses[10].address = 16
    /\ read_accesses[10].size = 2

\* the database file has both fields
BothFields(database) ==
    database.exists /\ {"raw", "read_accesses"} \subseteq DOMAIN database.data

\* C14: the decoder runs exactly when the database file is absent or lacks
\* 'raw' or 'read_accesses'; on a hit the decoder is not run and the file is
\* not rewritten; on a miss the file is written once, when decoding has
\* completed and before annotation and post-processing, with both fields.
C14_DecodeOnMissOnly ==
    [][/\ pc = "get_database" =>
             /\ (pc' = "find_read_accesses") <=> ~ BothFields(cache)
             /\ BothFields(cache) => pc' = "loaded" /\ cache' = cache
       /\ (pc' = "find_read_accesses" /\ pc # pc') => pc = "get_database"
       /\ (pc' \in {"mosi_loop", "value_loop"} /\ pc # pc') => pc = "find_read_accesses"
       /\ (pc' = "decoded" /\ pc # pc') => pc \in {"mosi_loop", "value_loop"}
       /\ pc = "decoded" =>
             /\ pc' = "loaded"
             /\ cache' # cache
             /\ BothFields(cache')
             /\ cache'.data.read_accesses = read_accesses
             /\ read_accesses' = read_accesses
       /\ cache' # cache => pc = "decoded"]_vars

\* the second run found the file the first run wrote and did not decode
C14_Witness ==
    /\ invocations = 2
    /\ pc = "loaded"
    /\ instr_index = 0
    /\ BothFields(cache)
    /\ DOMAIN read_accesses # {}
    /\ read_accesses = cache.data.read_accesses

\* C15: the access collection a run obtains on a hit is the one decoding
\* the capture with the firmware image of this run gives: every access has
\* the type its address resolves to in the image of this run.
C15_HitEqualsDecode ==
    [][(pc = "get_database" /\ pc' = "loaded")
       => \A k \in DOMAIN read_accesses' :
              read_accesses'[k].type = Resolve(layout, read_accesses'[k].address)]_vars

\* C16: after every stage a record is keyed by the decoded start time of
\* the earliest access merged into it: aggregation and collapsing keep keys
\* of their input, every key they drop follows a key they keep, and a record
\* they keep still starts at its key; normalization changes start_time but
\* leaves the key set as it is.
C16_KeyedByOriginalStart ==
    [][/\ pc \in {"aggregate", "collapse"} =>
             /\ DOMAIN read_accesses' \subseteq DOMAIN read_accesses
             /\ \A k \in DOMAIN read_accesses' : read_accesses'[k].start_time = k
             /\ \A t \in DOMAIN read_accesses \ DOMAIN read_accesses' :
                    \E k \in DOMAIN read_accesses' : k < t
       /\ (pc = "normalize" /\ pc' = "render") =>
             /\ DOMAIN read_accesses' = DOMAIN read_accesses
             /\ \A k \in DOMAIN read_accesses' :
                    read_accesses'[k].start_time =
                        IF args.normalize_timestamps
                        THEN k - Min(DOMAIN read_accesses)
                        ELSE k]_vars

\* the accesses at 10 and 20 were aggregated, the one at 30 is of another
\* type; after normalization the keys are still 10 and 30
C16_Witness ==
    /\ pc = "render"
    /\ args.no_duplicates /\ args.collapse /\ args.normalize_timestamps
    /\ DOMAIN read_accesses = {10, 30}
    /\ Contains(read_accesses[10].info, "x2")
    /\ read_accesses[10].start_time = 0
    /\ read_accesses[30].start_time = 20
    /\ read_accesses[30].type # read_accesses[10].type

\* C17: aggregate_duplicates, collapse_entry_types, do_normalize_timestamps
\* and get_overview_read_accesses, applied to an empty collection, return an
\* empty collection and do not raise.
C17_EmptyStaysEmpty ==
    [][(/\ DOMAIN read_accesses = {}
        /\ \/ pc = "aggregate" /\ args.no_duplicates
           \/ pc = "collapse" /\ args.collapse
           \/ pc = "normalize" /\ args.normalize_timestamps
           \/ pc = "overview")
       => /\ pc' # "raised"
          /\ DOMAIN read_accesses' = {}
          /\ DOMAIN overview' = {}]_vars

\* C18: in the collection the quad-I/O decoder returns, the latency of an
\* access is its start_time minus the end_time of the access opened just
\* before it, and its start_time minus 0 for the first access.
C18_QuadLatency ==
    (fmt = "value" /\ pc = "decoded") =>
        \A k \in DOMAIN read_accesses :
            LET r == read_accesses[k]
            IN  /\ r.instr_index = 0 => r.latency = r.start_time
                /\ \A j \in DOMAIN read_accesses :
                      read_accesses[j].instr_index = r.instr_index - 1
                          => r.latency = r.start_time - read_accesses[j].end_time

\* C19: a read the single-line decoder emits at cursor c, with frame length
\* f and data length d, has the timestamp of sample c as start_time, the
\* timestamp of sample c + f + d (clipped to the last sample) as end_time
\* and end_time - start_time as duration; last_end_time becomes that
\* end_time.
C19_ReadTiming ==
    [][(/\ fmt = "mosi"
        /\ pc = "mosi_loop"
        /\ pc' = "mosi_loop"
        /\ index < Len(samples)
        /\ At(samples, index) \in {READ_DATA, FAST_READ})
       => LET f == InstrSize(At(samples, index))
              r == read_accesses'[At(time, index)]
              e == Min({index + f + r.size, Len(time) - 1})
          IN  /\ r.start_time = At(time, index)
              /\ r.end_time = At(time, e)
              /\ r.duration = r.end_time - r.start_time
              /\ last_end_time' = r.end_time]_vars

\* C20: the access the quad-I/O decoder opened last is closed after the
\* loop with the timestamp of the final sample as end_time and with size
\* len(samples) - start_index - 2, whatever values follow its address.
C20_LastAccessClosedAtEnd ==
    (fmt = "value" /\ pc = "decoded") =>
        /\ read_accesses[last_start_time].end_time = At(time, Len(time) - 1)
        /\ read_accesses[last_start_time].size = Len(samples) - last_index - 2

RECURSIVE SurvivingKeys(_, _, _, _)
\* the start times of the surviving records when each access is compared
\* with the surviving record before it: `holder` is the key of that record
\* (-1 before the first access) and `size` the size it has accumulated
SurvivingKeys(keys, accesses, holder, size) ==
    IF keys = <<>> THEN {}
    ELSE LET k == Head(keys)
             values == accesses[k]
             merges == /\ holder # -1
                       /\ values.type = accesses[holder].type
                       /\ values.address <= accesses[holder].address + size
         IN  IF merges
             THEN SurvivingKeys(Tail(keys), accesses, holder, size + values.size)
             ELSE {k} \cup SurvivingKeys(Tail(keys), accesses, k, values.size)

\* C21: collapse_entry_types, walking the accesses in start-time order,
\* merges the current access exactly when its type is that of the previous
\* surviving record and its address is <= that record's address + the size
\* it has accumulated; otherwise the access is a new surviving record. So
\* the address of every access lies within [address, address + size] of the
\* record that holds it.
C21_MergeIntoSurvivor ==
    [][Collapsing =>
          /\ DOMAIN read_accesses' =
                 SurvivingKeys(SortedKeys(read_accesses), read_accesses, -1, 0)
          /\ \A t \in DOMAIN read_accesses :
                 LET record == read_accesses'[Holder(read_accesses', t)]
                 IN  /\ record.address <= read_accesses[t].address
                     /\ read_accesses[t].address <= record.address + record.size]_vars

\* C22: aggregate_duplicates drops an access only as the duplicate of an
\* earlier access that survives and has the same address and the same size:
\* two accesses to one address with different sizes are both kept, unless a
\* surviving earlier access has the address and the size of the dropped one.
C22_DuplicateHasSameSize ==
    [][Aggregating =>
          \A t \in (DOMAIN read_accesses) \ (DOMAIN read_accesses') :
              \E k \in DOMAIN read_accesses' :
                  /\ k < t
                  /\ read_accesses[k].address = read_accesses[t].address
                  /\ read_accesses[k].size = read_accesses[t].size]_vars

\* C23: with a non-decreasing sample clock, equal timestamps on successive
\* samples included, the collection the quad-I/O decoder returns has one
\* record for each read it decoded (instr_index counts them): no access is
\* overwritten or lost, and the instr_index values of the records are
\* pairwise distinct.
C23_OneRecordPerRead ==
    (fmt = "value" /\ pc = "decoded") =>
        /\ Cardinality(DOMAIN read_accesses) = instr_index
        /\ \A j, k \in DOMAIN read_accesses :
               j # k => read_accesses[j].instr_index # read_accesses[k].instr_index

\* C24 as stated: every record has duration = end_time - start_time when a
\* decoder emits it, and still has after any enabled subset of
\* aggregate_duplicates, collapse_entry_types and do_normalize_timestamps.
C24_DurationIsSpan ==
    Emitted =>
        \A k \in DOMAIN read_accesses :
            read_accesses[k].duration =
                read_accesses[k].end_time - read_accesses[k].start_time

\* C24, amended: every record has duration = end_time - start_time when a
\* decoder emits it, and still has after any enabled subset of the three
\* stages unless collapse_entry_types merged accesses into it; the duration
\* of a record collapse_entry_types returns is the sum of the durations of
\* the accesses merged into it.
C24_DurationIsSpanOrSum ==
    /\ [](Emitted =>
            \A k \in DOMAIN read_accesses :
                ~ Contains(read_accesses[k].info, "[c]") =>
                    read_accesses[k].duration =
                        read_accesses[k].end_time - read_accesses[k].start_time)
    /\ [][Collapsing =>
            LET ks == SortedKeys(read_accesses)
            IN  \A i \in 1..Len(ks) :
                    StartsRecord(read_accesses, ks, i) =>
                        read_accesses'[ks[i]].duration =
                            SumOver([j \in 1..Len(ks) |-> read_accesses[ks[j]].duration],
                                    MergedInto(read_accesses, ks, i))]_vars

\* two reads 1 ns long and 1 ns apart, merged and shifted: the record spans
\* more than the two durations
C24_Witness ==
    /\ pc = "render"
    /\ args.collapse
    /\ args.normalize_timestamps
    /\ \E k \in DOMAIN read_accesses :
        /\ Contains(read_accesses[k].info, "[c]")
        /\ read_accesses[k].duration = 2
        /\ read_accesses[k].end_time - read_accesses[k].start_time = 3

\* how often the tag occurs in the annotation list
Count(info, tag) == Cardinality({i \in DOMAIN info : info[i] = tag})

\* C25: in the output of collapse_entry_types the annotation list of a
\* record has '[c]' exactly once when an access was merged into the record
\* and not at all otherwise; it has '~' at most once, and has it exactly
\* when the accesses merged into the record do not all have the same
\* duplicate multiplicity (absent multiplicities are equal to each other).
C25_CollapseTags ==
    [][Collapsing =>
          LET ks == SortedKeys(read_accesses)
          IN  \A i \in 1..Len(ks) :
                  StartsRecord(read_accesses, ks, i) =>
                      LET info == read_accesses'[ks[i]].info
                          merged == MergedInto(read_accesses, ks, i)
                          counts == {Get(read_accesses[ks[j]], "duplicate_count", NoCount) :
                                        j \in merged}
                      IN  /\ Count(info, "[c]") = IF Cardinality(merged) > 1 THEN 1 ELSE 0
                          /\ Count(info, "~") = IF Cardinality(counts) > 1 THEN 1 ELSE 0]_vars

\* accesses to 16, 17, 17, 18: aggregated they have the multiplicities 1,
\* 2, 1 and collapse into one record, over two changes of multiplicity
C25_Witness ==
    /\ pc = "normalize"
    /\ args.collapse
    /\ args.no_duplicates
    /\ DOMAIN read_accesses = {10}
    /\ read_accesses[10].info = <<"x1", "[c]", "~">>
    /\ read_accesses[10].address = 16
    /\ read_accesses[10].size = 3
    /\ read_accesses[10].end_time = 44

\* the access that opened the time block of the access that started at k,
\* when a latency above 50,000 ns opens a block
BlockAbove50000(k) ==
    Max({Min(DOMAIN read_accesses)}
            \cup {j \in DOMAIN read_accesses :
                     j <= k /\ read_accesses[j].latency > 50000})

\* C26: the overview forgets the known (type, is-CCP) pairs at an access
\* exactly when the latency of the access is above 50,000 ns: such an access
\* opens a row, and an access with a latency of 50,000 ns or less opens a
\* row only if its pair has not occurred since the last access with a
\* latency above 50,000 ns.
C26_BlockAbove50000ns ==
    OverviewDone =>
        \A k \in DOMAIN read_accesses :
            k \in DOMAIN overview <=>
                \A j \in DOMAIN read_accesses :
                    (/\ BlockAbove50000(k) <= j
                     /\ j < k
                     /\ read_accesses[j].type = read_accesses[k].type)
                        => Contains(read_accesses[j].info, "CCP")
                               # Contains(read_accesses[k].info, "CCP")

RECURSIVE QuadOpcodes(_, _)
\* the Python indices, from i on, of the samples that open a quad-I/O read:
\* a read opcode followed by a value above 0xFF, each pair taken once
QuadOpcodes(values, i) ==
    IF i >= Len(values) - 1 THEN <<>>
    ELSE IF At(values, i) \in QUAD_READS /\ At(values, i + 1) > 255
         THEN <<i>> \o QuadOpcodes(values, i + 2)
         ELSE QuadOpcodes(values, i + 1)

\* C27: in the collection the quad-I/O decoder returns, every access but the
\* last has size = index of the next access's opcode - index of its own
\* opcode - 2 and end_time = the timestamp of the sample before the next
\* access's opcode; every access has size, end_time, duration and latency,
\* and size >= 0.
C27_QuadSizeAndEnd ==
    (fmt = "value" /\ pc = "decoded") =>
        LET opcodes == QuadOpcodes(samples, 0)
        IN  \A k \in DOMAIN read_accesses :
                LET r == read_accesses[k]
                    n == r.instr_index + 1
                IN  /\ {"size", "end_time", "duration", "latency"} \subseteq DOMAIN r
                    /\ r.size >= 0
                    /\ n < Len(opcodes) =>
                          /\ r.size = opcodes[n + 1] - opcodes[n] - 2
                          /\ r.end_time = At(time, opcodes[n + 1] - 1)

\* a read with one data sample, then a second read
C27_Witness ==
    /\ fmt = "value"
    /\ pc = "decoded"
    /\ QuadOpcodes(samples, 0) = <<0, 3>>
    /\ DOMAIN read_accesses = {0, 3}
    /\ read_accesses[0].size = 1
    /\ read_accesses[0].end_time = 2
    /\ read_accesses[3].instr_index = 1

\* one iteration of the scan loop of the single-line decoder that does not
\* raise
MosiIteration == fmt = "mosi" /\ pc = "mosi_loop" /\ pc' = "mosi_loop"

\* C28: in the single-line decoder instr_index is 0 at the first iteration
\* and every iteration (a read, another instruction of the catalog, an
\* unknown byte) adds exactly 1 to it and moves the cursor forward by at
\* least 1; a read is recorded with the instr_index of its iteration, the
\* number of instructions decoded before it; over the recorded accesses in
\* start-time order instr_index is strictly increasing.
C28_InstrIndexCountsInstructions ==
    [][MosiIteration =>
          /\ index = 0 => instr_index = 0
          /\ instr_index' = instr_index + 1
          /\ index' >= index + 1
          /\ At(samples, index) \in {READ_DATA, FAST_READ} =>
                 /\ At(time, index) \in DOMAIN read_accesses'
                 /\ read_accesses'[At(time, index)].instr_index = instr_index
          /\ \A j, k \in DOMAIN read_accesses' :
                 j < k => read_accesses'[j].instr_index < read_accesses'[k].instr_index]_vars

\* two instructions that are no reads, then a read
C28_Witness ==
    /\ fmt = "mosi"
    /\ pc = "decoded"
    /\ instr_index = 3
    /\ \E k \in DOMAIN read_accesses :
        /\ read_accesses[k].instr_index = 2
        /\ k = At(time, 2)

============================================================================
